---- MODULE Spec2Model ----
(***************************************************************************)
(* Model of the metapopulation engine of src/model/Metapopulation.py and   *)
(* the genotype helpers of src/model/genome.py.                            *)
(*                                                                         *)
(* One cycle() call is modelled as a sequential walk through its phases;   *)
(* pc names the phase, node the cursor of the running loop over the        *)
(* topology's nodes.  Random draws (binomial, choice, random_integers) are *)
(* nondeterministic choices over their supports.  Probabilities and rates  *)
(* are rationals [num, den].  The Population class is not part of the      *)
(* available sources; its operations are modelled from its documented      *)
(* interface (abundance vector plus a pending-immigrant buffer).           *)
(***************************************************************************)
EXTENDS Integers, Sequences, FiniteSets, TLC

VARIABLES
    config,               \* the configuration read by __init__
    time,                 \* self.time
    pc,                   \* position inside cycle()
    node,                 \* cursor of the running nodes_iter loop
    slot,                 \* cursor of neighbors_iter in 'neighbors' mode
    abundances,           \* node -> Population.abundances
    immigrants,           \* node -> Population's pending-immigrant buffer
    fitness_landscape,    \* self.fitness_landscape
    mutation_probs,       \* self.mutation_probs
    environment_changed,  \* self.environment_changed
    log_updates,          \* sink -> sequence of times passed to update()
    history,              \* the calls made so far by the current cycle()
    pre_migrate,          \* abundances as they stood when migrate() began
    calls,                \* number of cycle() calls the driver has made
    probe                 \* the last call of a query or a pure function and its result

vars == <<config, time, pc, node, slot, abundances, immigrants,
          fitness_landscape, mutation_probs, environment_changed,
          log_updates, history, pre_migrate, calls, probe>>

\* ------------------------------------------------------------------ bounds

\* largest complete graph explored
MaxSize == 3
\* capacity_max of a population
CapacityMax == 2
\* number of cycle() calls explored in the scheduling specification
MaxCycles == 3
\* number of cycle() calls explored in the migration specification
MigCycles == 1
\* number of cycle() calls explored in the query specification
QueryCycles == 2
\* longest genome (adaptation loci) a mutation matrix is built for
MaxGenomeLength == 2

\* ------------------------------------------------------------ arithmetic

RECURSIVE Pow(_, _)
Pow(b, e) == IF e = 0 THEN 1 ELSE b * Pow(b, e - 1)

RECURSIVE SumOver(_, _)
SumOver(f, S) ==
    IF S = {} THEN 0
    ELSE LET x == CHOOSE y \in S : TRUE IN f[x] + SumOver(f, S \ {x})

Total(a) == SumOver(a, DOMAIN a)

Rate(n, d) == [num |-> n, den |-> d]
RateZero == Rate(0, 1)
RateHalf == Rate(1, 2)
RateOne  == Rate(1, 1)
IsZero(r) == r.num = 0
IsOne(r)  == r.num = r.den

\* ---------------------------------------------------------------- genome

Genotypes(L) == 0 .. (Pow(2, L + 1) - 1)

RECURSIVE PopCount(_)
PopCount(x) == IF x = 0 THEN 0 ELSE (x % 2) + PopCount(x \div 2)

RECURSIVE Xor(_, _)
Xor(a, b) ==
    IF a = 0 /\ b = 0 THEN 0
    ELSE (IF (a % 2) # (b % 2) THEN 1 ELSE 0) + 2 * Xor(a \div 2, b \div 2)

RECURSIVE BitAnd(_, _)
BitAnd(a, b) ==
    IF a = 0 \/ b = 0 THEN 0
    ELSE (IF (a % 2) = 1 /\ (b % 2) = 1 THEN 1 ELSE 0)
         + 2 * BitAnd(a \div 2, b \div 2)

\* the count of the bits set in both arguments
hamming_distance_and(a, b) == PopCount(BitAnd(a, b))

hamming_distance(a, b) == PopCount(Xor(a, b))

\* the test made on the lowest bit
is_producer_lowest_bit(g, bits) == BitAnd(g, 1) = 1

is_producer(g, bits) == BitAnd(g, Pow(2, bits)) = Pow(2, bits)

\* bin(a)[2:] as a sequence of bits, most significant first, no padding
RECURSIVE base10_as_bitarray(_)
base10_as_bitarray(a) ==
    IF a < 2 THEN <<a>> ELSE Append(base10_as_bitarray(a \div 2), a % 2)

\* ------------------------------------------------------ mutation matrix

\* S[i][j] of get_mutation_probabilities: the two stacked blocks
SocialDiff(L, i, j) ==
    IF i < Pow(2, L)
    THEN (IF j < Pow(2, L) THEN 0 ELSE 1)
    ELSE (IF j < Pow(2, L) THEN 1 ELSE 0)

\* the entry with the two social factors exchanged
MutationEntrySocialSwapped(L, ms, ma, i, j) ==
    LET S  == SocialDiff(L, i, j)
        hd == hamming_distance(i, j) - S
    IN  Pow(ma.den - ma.num, L - hd) * Pow(ma.num, hd)
        * Pow(ms.den - ms.num, S) * Pow(ms.num, IF S = 0 THEN 1 ELSE 0)

\* entry [i][j] scaled by ma.den^L * ms.den
MutationEntry(L, ms, ma, i, j) ==
    LET S  == SocialDiff(L, i, j)
        hd == hamming_distance(i, j) - S
    IN  Pow(ma.den - ma.num, L - hd) * Pow(ma.num, hd)
        * Pow(ms.den - ms.num, IF S = 0 THEN 1 ELSE 0) * Pow(ms.num, S)

get_mutation_probabilities(L, ms, ma) ==
    [i \in Genotypes(L) |-> [j \in Genotypes(L) |-> MutationEntry(L, ms, ma, i, j)]]

\* ---------------------------------------------------- fitness landscape

\* values a per-locus effect draw may take
EffectValues == {1, 2}

PadLeft(bits, n) == [k \in 1 .. n |->
                       IF k <= n - Len(bits) THEN 0 ELSE bits[k - (n - Len(bits))]]

\* the landscape with the social effect appended after the adaptation effects
build_fitness_landscape_cost_last(L, base, cost, effects) ==
    LET eff == effects \o <<0 - cost>>
    IN  [i \in Genotypes(L) |->
           LET genotype == PadLeft(base10_as_bitarray(i), Len(eff))
               prod     == [k \in 1 .. Len(eff) |-> genotype[k] * eff[k]]
           IN  SumOver(prod, 1 .. Len(eff)) + (base + cost)]

\* effects: the L drawn adaptation effects; the social effect -cost is prepended
build_fitness_landscape(L, base, cost, effects) ==
    LET eff == <<0 - cost>> \o effects
    IN  [i \in Genotypes(L) |->
           LET genotype == PadLeft(base10_as_bitarray(i), Len(eff))
               prod     == [k \in 1 .. Len(eff) |-> genotype[k] * eff[k]]
           IN  SumOver(prod, 1 .. Len(eff)) + (base + cost)]

EffectDraws(L) == [1 .. L -> EffectValues]

\* -------------------------------------------------------------- topology

\* nx.complete_graph(n=size): nodes 0 .. size-1
Nodes(c) == 0 .. (c.size - 1)

\* self.topology.neighbors(n), in iteration order
Neighbors(c, n) ==
    LET others == {m \in Nodes(c) : m # n}
        RECURSIVE Asc(_)
        Asc(S) == IF S = {} THEN <<>>
                  ELSE LET m == CHOOSE x \in S : \A y \in S : x <= y
                       IN  <<m>> \o Asc(S \ {m})
    IN  Asc(others)

\* self.topology.degree(n)
Degree(c, n) == Len(Neighbors(c, n))

SeqRange(s) == {s[k] : k \in 1 .. Len(s)}

\* ------------------------------------------------------------ Population

ZeroVector(L) == [g \in Genotypes(L) |-> 0]

MaxOf(a) == CHOOSE m \in {a[g] : g \in DOMAIN a} : \A g \in DOMAIN a : a[g] <= m

\* all vectors below a, componentwise
LeqVectors(a) == {v \in [DOMAIN a -> 0 .. MaxOf(a)] : \A g \in DOMAIN a : v[g] <= a[g]}

\* numpy.random.binomial(a, r), one draw per genotype
Binomial(a, r) ==
    IF IsZero(r) THEN {[g \in DOMAIN a |-> 0]}
    ELSE IF IsOne(r) THEN {a}
    ELSE LeqVectors(a)

VecAdd(a, b) == [g \in DOMAIN a |-> a[g] + b[g]]
VecSub(a, b) == [g \in DOMAIN a |-> a[g] - b[g]]

Min2(x, y) == IF x <= y THEN x ELSE y

\* Population.grow(): growth toward capacity, no genotype appears from nothing
PopGrow(a, cap) ==
    {v \in [DOMAIN a -> 0 .. cap] :
        /\ \A g \in DOMAIN a : a[g] = 0 => v[g] = 0
        /\ Total(v) <= cap
        /\ Total(v) >= Min2(Total(a), cap)}

\* Population.mutate(): individuals move between genotypes along the
\* non-zero entries of the mutation matrix; the size is kept
PopMutate(a, probs) ==
    {v \in [DOMAIN a -> 0 .. Total(a)] :
        /\ Total(v) = Total(a)
        /\ \A j \in DOMAIN a :
              v[j] > 0 => \E i \in DOMAIN a : a[i] > 0 /\ probs[i][j] > 0
        /\ \A i \in DOMAIN a :
              (a[i] > 0 /\ \A j \in DOMAIN a : j # i => probs[i][j] = 0)
                 => v[i] >= a[i]}

\* Population.dilute(stochastic)
PopDilute(a, stochastic, factor) ==
    IF stochastic THEN Binomial(a, factor)
    ELSE {[g \in DOMAIN a |-> (a[g] * factor.num) \div factor.den]}

\* Population.bottleneck(survival_rate)
PopBottleneck(a, survival_rate) == Binomial(a, survival_rate)

\* Population.reset_loci(): every individual keeps its social bit and has
\* its adaptation loci cleared
PopResetLoci(a, L) ==
    [g \in DOMAIN a |->
        IF g = 0 \/ g = Pow(2, L)
        THEN SumOver(a, {h \in DOMAIN a : is_producer(h, L) = is_producer(g, L)})
        ELSE 0]

\* Population.select_migrants(migration_rate)
PopSelectMigrants(a, migration_rate) == Binomial(a, migration_rate)

\* Population.add_immigrants(migrants): staged in the pending buffer
PopAddImmigrants(buf, migrants) == VecAdd(buf, migrants)

\* Population.remove_emigrants(migrants): applied to the live vector at once
PopRemoveEmigrants(a, migrants) == VecSub(a, migrants)

\* Population.census(): the live vector after the buffer is merged in
PopCensus(a, buf) == VecAdd(a, buf)

\* --------------------------------------------------------- configuration

AllSinks == {"demographics", "genotypes", "fitness"}

\* the options every explored configuration shares
BaseConfig ==
    [size |-> 2, migration_rate |-> RateHalf, migration_dest |-> "single",
     migration_p_far |-> RateZero, log_frequency |-> 1, mix_frequency |-> 0,
     env_change_frequency |-> 0, genome_length |-> 0,
     mutation_rate_social |-> RateHalf, mutation_rate_adaptation |-> RateHalf,
     dilution_stochastic |-> TRUE, dilution_factor |-> RateHalf,
     mutation_rate_tolerance |-> Rate(1, 4), initial_state |-> "stress",
     capacity_max |-> CapacityMax, capacity_min |-> 1,
     initial_producer_proportion |-> RateHalf,
     base_fitness |-> 1, production_cost |-> 1,
     sinks |-> {"demographics", "fitness"}, cycles |-> MaxCycles,
     topology |-> "complete"]

\* the migration settings of the scheduling configurations
SchedMigration ==
    {[dest |-> "single", p_far |-> RateZero],
     [dest |-> "single", p_far |-> RateOne],
     [dest |-> "neighbors", p_far |-> RateZero]}

\* configurations that vary the cadences of cycle(): every pair of mix and
\* environment-change cadences, then every log cadence with every migration
\* setting, then a genome with one adaptation locus
SchedConfigs ==
    {[BaseConfig EXCEPT !.size = sz, !.log_frequency = 2, !.mix_frequency = mf,
                        !.env_change_frequency = ef, !.migration_rate = RateOne,
                        !.migration_p_far = RateOne] :
        sz \in 1 .. 2, mf \in 0 .. 2, ef \in 0 .. 2}
    \cup {[BaseConfig EXCEPT !.size = sz, !.log_frequency = lf, !.mix_frequency = 2,
                             !.env_change_frequency = 1, !.migration_dest = mg.dest,
                             !.migration_p_far = mg.p_far,
                             !.migration_rate = RateOne] :
        sz \in 1 .. 2, lf \in 1 .. 2, mg \in SchedMigration}
    \cup {[BaseConfig EXCEPT !.size = 1, !.genome_length = 1,
                             !.env_change_frequency = ef,
                             !.migration_p_far = RateOne] : ef \in 1 .. 2}

\* configurations that vary migration; the last one lets an environment
\* change follow a migration
MigConfigs ==
    {[BaseConfig EXCEPT !.size = sz, !.migration_rate = mr, !.migration_dest = md,
                        !.migration_p_far = pf, !.cycles = MigCycles] :
        sz \in 1 .. MaxSize, mr \in {RateZero, RateHalf, RateOne},
        md \in {"single", "neighbors"}, pf \in {RateZero, RateOne}}
    \cup {[BaseConfig EXCEPT !.migration_p_far = RateHalf,
                             !.env_change_frequency = 1, !.cycles = MigCycles + 1]}

\* ------------------------------------------------------------------ Init

\* int(x) of a non-negative rational
Floor(n, d) == n \div d

\* the seeding with the genotypes of the two corners exchanged
SeedAbundancesCornersSwapped(c, n) ==
    LET L    == c.genome_length
        p    == c.initial_producer_proportion
        zero == ZeroVector(L)
    IN  IF c.initial_state = "corners"
        THEN IF n = 0 THEN [zero EXCEPT ![0] = c.capacity_max]
             ELSE IF n = c.size - 1 THEN [zero EXCEPT ![Pow(2, L)] = c.capacity_min]
             ELSE zero
        ELSE LET cap == Floor(c.capacity_min * p.den
                                + (c.capacity_max - c.capacity_min) * p.num, p.den)
                 num_producers    == Floor(cap * p.num, p.den)
                 num_nonproducers == cap - num_producers
             IN  [[zero EXCEPT ![0] = num_producers]
                        EXCEPT ![Pow(2, L)] = num_nonproducers]

\* the abundances node n is given by __init__ before its first dilution
SeedAbundances(c, n) ==
    LET L    == c.genome_length
        p    == c.initial_producer_proportion
        zero == ZeroVector(L)
    IN  IF c.initial_state = "corners"
        THEN IF n = 0 THEN [zero EXCEPT ![Pow(2, L)] = c.capacity_max]
             ELSE IF n = c.size - 1 THEN [zero EXCEPT ![0] = c.capacity_min]
             ELSE zero
        ELSE LET cap == Floor(c.capacity_min * p.den
                                + (c.capacity_max - c.capacity_min) * p.num, p.den)
                 num_producers    == Floor(cap * p.num, p.den)
                 num_nonproducers == cap - num_producers
             IN  [[zero EXCEPT ![0] = num_producers]
                        EXCEPT ![Pow(2, L)] = num_nonproducers]

\* the abundances node n may hold when __init__ returns
InitialAbundances(c, n) ==
    IF c.initial_state = "corners"
    THEN IF n = 0 \/ n = c.size - 1
         THEN PopDilute(SeedAbundances(c, n), c.dilution_stochastic, c.dilution_factor)
         ELSE {SeedAbundances(c, n)}
    ELSE PopBottleneck(SeedAbundances(c, n), c.mutation_rate_tolerance)

InitWith(Configs) ==
    /\ config \in Configs
    /\ time = 0
    /\ pc = "idle"
    /\ node = 0
    /\ slot = 1
    /\ abundances \in
          {f \in [Nodes(config) ->
                    UNION {InitialAbundances(config, n) : n \in Nodes(config)}] :
              \A n \in Nodes(config) : f[n] \in InitialAbundances(config, n)}
    /\ immigrants = [n \in Nodes(config) |-> ZeroVector(config.genome_length)]
    /\ mutation_probs = get_mutation_probabilities(config.genome_length,
                            config.mutation_rate_social,
                            config.mutation_rate_adaptation)
    /\ fitness_landscape \in
          {build_fitness_landscape(config.genome_length, config.base_fitness,
                                   config.production_cost, e) :
              e \in EffectDraws(config.genome_length)}
    /\ environment_changed = FALSE
    /\ log_updates = [s \in AllSinks |-> <<>>]
    /\ history = <<>>
    /\ pre_migrate = <<>>
    /\ calls = 0
    /\ probe = <<>>

Init == InitWith(SchedConfigs)

InitMigrate == InitWith(MigConfigs)

\* ----------------------------------------------------------------- cycle

LastNode == config.size - 1

\* a loop over the nodes that stops after its first iteration
AdvanceAfterFirst(after) == pc' = after /\ node' = 0

\* the loop "for n, d in self.topology.nodes_iter(data=True)" moves on, or
\* ends and control reaches the phase after it
Advance(after) ==
    IF node = LastNode
    THEN pc' = after /\ node' = 0
    ELSE pc' = pc /\ node' = node + 1

\* the driver calls cycle()
CycleBegin ==
    /\ pc = "idle"
    /\ time < config.cycles
    /\ pc' = "grow"
    /\ node' = 0
    /\ history' = <<>>
    /\ calls' = calls + 1
    /\ UNCHANGED probe
    /\ UNCHANGED <<config, time, slot, abundances, immigrants, fitness_landscape,
                   mutation_probs, environment_changed, log_updates, pre_migrate>>

\* grow(): one iteration of its loop
GrowNode ==
    /\ pc = "grow"
    /\ \E v \in PopGrow(abundances[node], config.capacity_max) :
          abundances' = [abundances EXCEPT ![node] = v]
    /\ history' = Append(history, <<"grow", node>>)
    /\ Advance("mutate")
    /\ UNCHANGED <<config, time, slot, immigrants, fitness_landscape,
                   mutation_probs, environment_changed, log_updates, pre_migrate>>
    /\ UNCHANGED <<calls, probe>>

\* mutate(): one iteration of its loop
MutateNode ==
    /\ pc = "mutate"
    /\ \E v \in PopMutate(abundances[node], mutation_probs) :
          abundances' = [abundances EXCEPT ![node] = v]
    /\ history' = Append(history, <<"mutate", node>>)
    /\ Advance("migrate")
    /\ UNCHANGED <<config, time, slot, immigrants, fitness_landscape,
                   mutation_probs, environment_changed, log_updates, pre_migrate>>
    /\ UNCHANGED <<calls, probe>>

\* migrate() without its guard on a zero rate
MigrateCallUnguarded ==
    /\ pc = "migrate"
    /\ history' = Append(history, <<"migrate">>)
    /\ pre_migrate' = abundances
    /\ pc' = "migrating"
    /\ node' = 0
    /\ slot' = 1
    /\ UNCHANGED <<config, time, abundances, immigrants, fitness_landscape,
                   mutation_probs, environment_changed, log_updates, calls, probe>>

\* migrate() is entered: the guard on a zero rate, or the loop starts
MigrateCall ==
    /\ pc = "migrate"
    /\ history' = Append(history, <<"migrate">>)
    /\ pre_migrate' = abundances
    /\ pc' = IF IsZero(config.migration_rate) THEN "census" ELSE "migrating"
    /\ node' = 0
    /\ slot' = 1
    /\ UNCHANGED <<config, time, abundances, immigrants, fitness_landscape,
                   mutation_probs, environment_changed, log_updates>>
    /\ UNCHANGED <<calls, probe>>

\* binomial(n=1, p=self.migration_p_far) == 1
FarOutcomes ==
    IF IsZero(config.migration_p_far) THEN {FALSE}
    ELSE IF IsOne(config.migration_p_far) THEN {TRUE}
    ELSE BOOLEAN

\* a delivery that writes the migrants into the destination's live vector
DeliverIntoLive(src, dst, migrants) ==
    /\ immigrants' = immigrants
    /\ abundances' =
          [n \in DOMAIN abundances |->
              LET a == IF n = dst THEN VecAdd(abundances[n], migrants)
                       ELSE abundances[n]
              IN  IF n = src THEN VecSub(a, migrants) ELSE a]

\* a delivery that forgets pop.remove_emigrants(migrants)
DeliverNoRemove(src, dst, migrants) ==
    /\ immigrants' = [immigrants EXCEPT
                         ![dst] = PopAddImmigrants(immigrants[dst], migrants)]
    /\ abundances' = abundances

\* neighbor.add_immigrants(migrants); pop.remove_emigrants(migrants)
Deliver(src, dst, migrants) ==
    /\ immigrants' = [immigrants EXCEPT
                         ![dst] = PopAddImmigrants(immigrants[dst], migrants)]
    /\ abundances' = [abundances EXCEPT
                         ![src] = PopRemoveEmigrants(abundances[src], migrants)]

\* a 'single' iteration that draws its destination from the whole topology
\* whether or not the far redirect is taken
MigrateSingleAnyNode ==
    /\ pc = "migrating"
    /\ config.migration_dest = "single"
    /\ \E migrants \in PopSelectMigrants(abundances[node], config.migration_rate),
          far \in FarOutcomes :
          /\ history' = Append(history, <<"select_migrants", node>>)
          /\ \E neighbor_index \in Nodes(config) :
                Deliver(node, neighbor_index, migrants)
          /\ Advance("census")
    /\ UNCHANGED <<config, time, slot, fitness_landscape, mutation_probs,
                   environment_changed, log_updates, pre_migrate, calls, probe>>

\* migrate(), 'single' mode: one iteration of the loop over the nodes
MigrateSingle ==
    /\ pc = "migrating"
    /\ config.migration_dest = "single"
    /\ \E migrants \in PopSelectMigrants(abundances[node], config.migration_rate),
          far \in FarOutcomes :
          /\ history' = Append(history, <<"select_migrants", node>>)
          /\ IF (~far) /\ Neighbors(config, node) = <<>>
             THEN \* nchoice of an empty list raises
                  /\ pc' = "error"
                  /\ UNCHANGED <<node, abundances, immigrants>>
             ELSE /\ \E neighbor_index \in
                        (IF far THEN Nodes(config)
                         ELSE SeqRange(Neighbors(config, node))) :
                        Deliver(node, neighbor_index, migrants)
                  /\ Advance("census")
    /\ UNCHANGED <<config, time, slot, fitness_landscape, mutation_probs,
                   environment_changed, log_updates, pre_migrate>>
    /\ UNCHANGED <<calls, probe>>

\* migrate(), 'neighbors' mode: one iteration of the loop over the
\* neighbours of the current node (none for a node without neighbours)
MigrateNeighbors ==
    /\ pc = "migrating"
    /\ config.migration_dest = "neighbors"
    /\ LET num_neighbors == Degree(config, node)
       IN  IF num_neighbors = 0
           THEN /\ Advance("census")
                /\ UNCHANGED <<slot, abundances, immigrants, history>>
           ELSE /\ \E far \in FarOutcomes :
                   \E neighbor_node \in
                        (IF far THEN Nodes(config)
                         ELSE {Neighbors(config, node)[slot]}) :
                   \E migrants \in PopSelectMigrants(abundances[node],
                        Rate(config.migration_rate.num,
                             config.migration_rate.den * num_neighbors)) :
                        Deliver(node, neighbor_node, migrants)
                              /\ history' = Append(history, <<"select_migrants", node>>)
                /\ IF slot = num_neighbors
                   THEN slot' = 1 /\ Advance("census")
                   ELSE slot' = slot + 1 /\ UNCHANGED <<pc, node>>
    /\ UNCHANGED <<config, time, fitness_landscape, mutation_probs,
                   environment_changed, log_updates, pre_migrate>>
    /\ UNCHANGED <<calls, probe>>

\* a census() iteration that merges the buffer and does not empty it
CensusNodeKeepsBuffer ==
    /\ pc = "census"
    /\ abundances' = [abundances EXCEPT
                         ![node] = PopCensus(abundances[node], immigrants[node])]
    /\ immigrants' = immigrants
    /\ history' = Append(history, <<"census", node>>)
    /\ Advance("log")
    /\ UNCHANGED <<config, time, slot, fitness_landscape, mutation_probs,
                   environment_changed, log_updates, pre_migrate, calls, probe>>

\* census(): one iteration of its loop
CensusNode ==
    /\ pc = "census"
    /\ abundances' = [abundances EXCEPT
                         ![node] = PopCensus(abundances[node], immigrants[node])]
    /\ immigrants' = [immigrants EXCEPT
                         ![node] = ZeroVector(config.genome_length)]
    /\ history' = Append(history, <<"census", node>>)
    /\ Advance("log")
    /\ UNCHANGED <<config, time, slot, fitness_landscape, mutation_probs,
                   environment_changed, log_updates, pre_migrate>>
    /\ UNCHANGED <<calls, probe>>

\* write_logfiles() run after the clock increment: it tests and reports the
\* next cycle's time
write_logfiles_next_time ==
    /\ pc = "log"
    /\ log_updates' =
          IF (time + 1) % config.log_frequency = 0
          THEN [s \in AllSinks |->
                   IF s \in config.sinks THEN Append(log_updates[s], time + 1)
                   ELSE log_updates[s]]
          ELSE log_updates
    /\ history' = Append(history, <<"write_logfiles">>)
    /\ pc' = "mix"
    /\ pre_migrate' = <<>>
    /\ UNCHANGED <<config, time, node, slot, abundances, immigrants,
                   fitness_landscape, mutation_probs, environment_changed>>
    /\ UNCHANGED <<calls, probe>>

\* write_logfiles(); the record of the finished migrate()/census() pass
\* is dropped here
write_logfiles ==
    /\ pc = "log"
    /\ log_updates' =
          IF time % config.log_frequency = 0
          THEN [s \in AllSinks |->
                   IF s \in config.sinks THEN Append(log_updates[s], time)
                   ELSE log_updates[s]]
          ELSE log_updates
    /\ history' = Append(history, <<"write_logfiles">>)
    /\ pc' = "mix"
    /\ pre_migrate' = <<>>
    /\ UNCHANGED <<config, time, node, slot, abundances, immigrants,
                   fitness_landscape, mutation_probs, environment_changed>>
    /\ UNCHANGED <<calls, probe>>

\* the mix condition without its test on time > 0
MixDueAtTimeZero ==
    config.mix_frequency > 0 /\ time % config.mix_frequency = 0

\* the condition of cycle() for mix()
MixDue ==
    config.mix_frequency > 0 /\ time > 0 /\ time % config.mix_frequency = 0

\* the environment-change condition without its test on time > 0
EnvChangeDueAtTimeZero ==
    /\ config.env_change_frequency > 0
    /\ time % config.env_change_frequency = 0

\* the condition of cycle() for change_environment()
EnvChangeDue ==
    /\ config.env_change_frequency > 0
    /\ time > 0
    /\ time % config.env_change_frequency = 0

\* the abundances summed over the nodes, per genotype
SummedAbundances ==
    [g \in Genotypes(config.genome_length) |->
        SumOver([n \in Nodes(config) |-> abundances[n][g]], Nodes(config))]

\* a mix() that adds each node's draw to what the node already holds
MixStepAccumulates ==
    /\ pc = "mix"
    /\ IF MixDue
       THEN /\ \E draw \in [Nodes(config) ->
                              Binomial(SummedAbundances, Rate(1, config.size))] :
                  abundances' = [n \in Nodes(config) |->
                                    VecAdd(abundances[n], draw[n])]
            /\ history' = Append(history, <<"mix">>)
       ELSE UNCHANGED <<abundances, history>>
    /\ pc' = "env"
    /\ UNCHANGED <<config, time, node, slot, immigrants, fitness_landscape,
                   mutation_probs, environment_changed, log_updates, pre_migrate,
                   calls, probe>>

\* the conditional mix() of cycle()
MixStep ==
    /\ pc = "mix"
    /\ IF MixDue
       THEN /\ abundances' \in
                  [Nodes(config) -> Binomial(SummedAbundances, Rate(1, config.size))]
            /\ history' = Append(history, <<"mix">>)
       ELSE UNCHANGED <<abundances, history>>
    /\ pc' = "env"
    /\ UNCHANGED <<config, time, node, slot, immigrants, fitness_landscape,
                   mutation_probs, environment_changed, log_updates, pre_migrate>>
    /\ UNCHANGED <<calls, probe>>

\* a change_environment() that also rebuilds the mutation matrix, from the
\* tolerance rate
ChangeEnvironmentRebuildsMatrix ==
    /\ pc = "env"
    /\ EnvChangeDue
    /\ \E e \in EffectDraws(config.genome_length) :
          fitness_landscape' =
              build_fitness_landscape(config.genome_length, config.base_fitness,
                                      config.production_cost, e)
    /\ mutation_probs' = get_mutation_probabilities(config.genome_length,
                             config.mutation_rate_tolerance,
                             config.mutation_rate_tolerance)
    /\ history' = Append(history, <<"change_environment">>)
    /\ pc' = "bottleneck"
    /\ node' = 0
    /\ UNCHANGED <<config, time, slot, abundances, immigrants,
                   environment_changed, log_updates, pre_migrate, calls, probe>>

\* change_environment() is entered: the landscape is rebuilt
ChangeEnvironmentCall ==
    /\ pc = "env"
    /\ EnvChangeDue
    /\ \E e \in EffectDraws(config.genome_length) :
          fitness_landscape' =
              build_fitness_landscape(config.genome_length, config.base_fitness,
                                      config.production_cost, e)
    /\ history' = Append(history, <<"change_environment">>)
    /\ pc' = "bottleneck"
    /\ node' = 0
    /\ UNCHANGED <<config, time, slot, abundances, immigrants, mutation_probs,
                   environment_changed, log_updates, pre_migrate>>
    /\ UNCHANGED <<calls, probe>>

\* an iteration that applies the bottleneck and leaves the loci as they are
BottleneckOnlyNode ==
    /\ pc = "bottleneck"
    /\ \E v \in PopBottleneck(abundances[node], config.mutation_rate_tolerance) :
          abundances' = [abundances EXCEPT ![node] = v]
    /\ history' = Append(history, <<"bottleneck", node>>)
    /\ environment_changed' = IF node = LastNode THEN TRUE ELSE environment_changed
    /\ Advance("tick")
    /\ UNCHANGED <<config, time, slot, immigrants, fitness_landscape,
                   mutation_probs, log_updates, pre_migrate, calls, probe>>

\* change_environment(): one iteration of its loop; when the loop ends
\* cycle() sets environment_changed
BottleneckResetNode ==
    /\ pc = "bottleneck"
    /\ \E v \in PopBottleneck(abundances[node], config.mutation_rate_tolerance) :
          abundances' = [abundances EXCEPT
                            ![node] = PopResetLoci(v, config.genome_length)]
    /\ history' = history \o <<<<"bottleneck", node>>, <<"reset_loci", node>>>>
    /\ environment_changed' = IF node = LastNode THEN TRUE ELSE environment_changed
    /\ Advance("tick")
    /\ UNCHANGED <<config, time, slot, immigrants, fitness_landscape,
                   mutation_probs, log_updates, pre_migrate>>
    /\ UNCHANGED <<calls, probe>>

\* the else branch of cycle(): dilute() is entered
DiluteCall ==
    /\ pc = "env"
    /\ ~EnvChangeDue
    /\ history' = Append(history, <<"dilute">>)
    /\ pc' = "dilute"
    /\ node' = 0
    /\ UNCHANGED <<config, time, slot, abundances, immigrants, fitness_landscape,
                   mutation_probs, environment_changed, log_updates, pre_migrate>>
    /\ UNCHANGED <<calls, probe>>

\* dilute(): one iteration of its loop; when the loop ends cycle() clears
\* environment_changed
DiluteNode ==
    /\ pc = "dilute"
    /\ \E v \in PopDilute(abundances[node], config.dilution_stochastic,
                          config.dilution_factor) :
          abundances' = [abundances EXCEPT ![node] = v]
    /\ history' = Append(history, <<"dilute", node>>)
    /\ environment_changed' = IF node = LastNode THEN FALSE ELSE environment_changed
    /\ Advance("tick")
    /\ UNCHANGED <<config, time, slot, immigrants, fitness_landscape,
                   mutation_probs, log_updates, pre_migrate>>
    /\ UNCHANGED <<calls, probe>>

\* the end of cycle() without the clock increment
TickWithoutIncrement ==
    /\ pc = "tick"
    /\ time' = time
    /\ history' = Append(history, <<"tick">>)
    /\ pc' = "idle"
    /\ UNCHANGED <<config, node, slot, abundances, immigrants, fitness_landscape,
                   mutation_probs, environment_changed, log_updates, pre_migrate>>
    /\ UNCHANGED <<calls, probe>>

\* self.time += 1, and cycle() returns
Tick ==
    /\ pc = "tick"
    /\ time' = time + 1
    /\ history' = Append(history, <<"tick">>)
    /\ pc' = "idle"
    /\ UNCHANGED <<config, node, slot, abundances, immigrants, fitness_landscape,
                   mutation_probs, environment_changed, log_updates, pre_migrate>>
    /\ UNCHANGED <<calls, probe>>

Next ==
    \/ CycleBegin
    \/ GrowNode
    \/ MutateNode
    \/ MigrateCall
    \/ MigrateSingle
    \/ MigrateNeighbors
    \/ CensusNode
    \/ write_logfiles
    \/ MixStep
    \/ ChangeEnvironmentCall
    \/ BottleneckResetNode
    \/ DiluteCall
    \/ DiluteNode
    \/ Tick

Spec == Init /\ [][Next]_vars

SpecMigrate == InitMigrate /\ [][Next]_vars

\* ---------------------------------------------------------- construction

\* the topology types __init__ accepts
TopologyTypes == {"moore", "vonneumann", "smallworld", "complete", "regular"}

\* a rate lies in [0, 1]
RateInUnit(r) == 0 <= r.num /\ r.num <= r.den

\* the option checks of __init__ with the log cadence left unchecked
OptionsValidWithoutLogFrequency(c) ==
    /\ RateInUnit(c.migration_rate)
    /\ c.migration_dest \in {"single", "neighbors"}
    /\ RateInUnit(c.migration_p_far)
    /\ c.topology \in TopologyTypes

\* the assertions __init__ makes on the options it has just read
OptionsValid(c) ==
    /\ RateInUnit(c.migration_rate)
    /\ c.migration_dest \in {"single", "neighbors"}
    /\ RateInUnit(c.migration_p_far)
    /\ c.topology \in TopologyTypes
    /\ c.log_frequency > 0

\* rates the mutation matrix is built from
MutationRates == {RateZero, Rate(1, 3), RateHalf, RateOne}

\* configurations that vary the inputs of the mutation matrix and of the
\* fitness landscape
MatrixConfigs ==
    {[BaseConfig EXCEPT !.size = 1, !.genome_length = L,
                        !.mutation_rate_social = ms,
                        !.mutation_rate_adaptation = ma, !.production_cost = pcost] :
        L \in 0 .. MaxGenomeLength, ms \in MutationRates, ma \in MutationRates,
        pcost \in 0 .. 1}

\* configurations that vary the seeding of the populations
SeedConfigs ==
    {[BaseConfig EXCEPT !.size = sz, !.genome_length = L, !.initial_state = st,
                        !.initial_producer_proportion = p, !.capacity_min = cmin,
                        !.dilution_stochastic = ds] :
        sz \in 1 .. MaxSize, L \in 0 .. 1, st \in {"corners", "stress"},
        p \in {RateZero, RateHalf, RateOne}, cmin \in 0 .. 1, ds \in BOOLEAN}

\* configurations that vary the validated options, valid and invalid values
\* in every combination
OptionConfigs ==
    {[BaseConfig EXCEPT !.migration_rate = mr, !.migration_dest = md,
                        !.migration_p_far = pf, !.topology = tp,
                        !.log_frequency = lf, !.mix_frequency = mf,
                        !.env_change_frequency = ef, !.base_fitness = bf,
                        !.genome_length = L, !.size = sz] :
        mr \in {Rate(0 - 1, 2), RateHalf, Rate(3, 2)},
        md \in {"single", "all"},
        pf \in {Rate(0 - 1, 2), RateOne, Rate(3, 2)},
        tp \in {"complete", "torus"},
        lf \in 0 .. 1, mf \in (0 - 1) .. 0, ef \in (0 - 1) .. 0,
        bf \in (0 - 1) .. 0, L \in (0 - 1) .. 0, sz \in 0 .. 1}

ConstructConfigs == MatrixConfigs \cup SeedConfigs \cup OptionConfigs

\* the state before Metapopulation(config) is called
InitConstruct ==
    /\ config \in ConstructConfigs
    /\ time = 0
    /\ pc = "init_options"
    /\ node = 0
    /\ slot = 1
    /\ abundances = <<>>
    /\ immigrants = <<>>
    /\ mutation_probs = <<>>
    /\ fitness_landscape = <<>>
    /\ environment_changed = FALSE
    /\ log_updates = [s \in AllSinks |-> <<>>]
    /\ history = <<>>
    /\ pre_migrate = <<>>
    /\ calls = 0
    /\ probe = <<>>

\* __init__ reads the options and asserts their ranges
CheckOptions ==
    /\ pc = "init_options"
    /\ pc' = IF OptionsValid(config) THEN "init_topology" ELSE "failed"
    /\ UNCHANGED <<config, time, node, slot, abundances, immigrants,
                   fitness_landscape, mutation_probs, environment_changed,
                   log_updates, history, pre_migrate, calls, probe>>

\* __init__ builds the graph; of the accepted types the complete graph is
\* the one explored
BuildTopology ==
    /\ pc = "init_topology"
    /\ config.topology = "complete"
    /\ pc' = IF config.size > 0 THEN "init_matrix" ELSE "failed"
    /\ UNCHANGED <<config, time, node, slot, abundances, immigrants,
                   fitness_landscape, mutation_probs, environment_changed,
                   log_updates, history, pre_migrate, calls, probe>>

\* self.mutation_probs = self.get_mutation_probabilities(); a negative
\* genome length makes the list repetition raise
BuildMutationProbs ==
    /\ pc = "init_matrix"
    /\ IF config.genome_length >= 0
       THEN /\ mutation_probs' =
                  get_mutation_probabilities(config.genome_length,
                                             config.mutation_rate_social,
                                             config.mutation_rate_adaptation)
            /\ pc' = "init_landscape"
       ELSE /\ pc' = "failed"
            /\ UNCHANGED mutation_probs
    /\ UNCHANGED <<config, time, node, slot, abundances, immigrants,
                   fitness_landscape, environment_changed,
                   log_updates, history, pre_migrate, calls, probe>>

\* self.fitness_landscape = self.build_fitness_landscape(), with its two
\* assertions
BuildLandscape ==
    /\ pc = "init_landscape"
    /\ IF config.genome_length >= 0 /\ config.base_fitness >= 0
       THEN /\ \E e \in EffectDraws(config.genome_length) :
                  fitness_landscape' =
                      build_fitness_landscape(config.genome_length,
                                              config.base_fitness,
                                              config.production_cost, e)
            /\ pc' = "init_seed"
       ELSE /\ pc' = "failed"
            /\ UNCHANGED fitness_landscape
    /\ UNCHANGED <<config, time, node, slot, abundances, immigrants,
                   mutation_probs, environment_changed,
                   log_updates, history, pre_migrate, calls, probe>>

\* the seeding loop moves on to the next node, or ends
SeedAdvance ==
    IF node = LastNode
    THEN pc' = "init_mix" /\ node' = 0
    ELSE pc' = "init_seed" /\ node' = node + 1

\* the node is seeded and then thinned by dilute() or bottleneck()
SeedIsDiluted(c, n) ==
    IF c.initial_state = "corners" THEN n = 0 \/ n = c.size - 1
    ELSE c.initial_state = "stress"

\* one iteration of the seeding loop up to the population's first dilution:
\* the Population is created and its abundances are set
SeedNode ==
    /\ pc = "init_seed"
    /\ abundances' = [m \in 0 .. node |->
                        IF m = node THEN SeedAbundances(config, node)
                        ELSE abundances[m]]
    /\ immigrants' = [m \in 0 .. node |-> ZeroVector(config.genome_length)]
    /\ IF SeedIsDiluted(config, node)
       THEN pc' = "init_dilute" /\ node' = node
       ELSE SeedAdvance
    /\ UNCHANGED <<config, time, slot, fitness_landscape, mutation_probs,
                   environment_changed, log_updates, history, pre_migrate,
                   calls, probe>>

\* the rest of the iteration: dilute() under 'corners', bottleneck() under
\* 'stress'
SeedDilute ==
    /\ pc = "init_dilute"
    /\ \E v \in InitialAbundances(config, node) :
          abundances' = [abundances EXCEPT ![node] = v]
    /\ history' = Append(history,
                         IF config.initial_state = "corners"
                         THEN <<"dilute", node>> ELSE <<"bottleneck", node>>)
    /\ SeedAdvance
    /\ UNCHANGED <<config, time, slot, immigrants, fitness_landscape,
                   mutation_probs, environment_changed, log_updates,
                   pre_migrate, calls, probe>>

\* assert self.mix_frequency >= 0
CheckMixFrequency ==
    /\ pc = "init_mix"
    /\ pc' = IF config.mix_frequency >= 0 THEN "init_env" ELSE "failed"
    /\ UNCHANGED <<config, time, node, slot, abundances, immigrants,
                   fitness_landscape, mutation_probs, environment_changed,
                   log_updates, history, pre_migrate, calls, probe>>

\* assert self.env_change_frequency >= 0
CheckEnvChangeFrequency ==
    /\ pc = "init_env"
    /\ environment_changed' = FALSE
    /\ pc' = IF config.env_change_frequency >= 0 THEN "init_logs" ELSE "failed"
    /\ UNCHANGED <<config, time, node, slot, abundances, immigrants,
                   fitness_landscape, mutation_probs,
                   log_updates, history, pre_migrate, calls, probe>>

\* the sinks are opened and __init__ returns: cycle() can be called
OpenLogs ==
    /\ pc = "init_logs"
    /\ log_updates' = [s \in AllSinks |-> <<>>]
    /\ history' = <<>>
    /\ pc' = "idle"
    /\ UNCHANGED <<config, time, node, slot, abundances, immigrants,
                   fitness_landscape, mutation_probs, environment_changed,
                   pre_migrate, calls, probe>>

NextConstruct ==
    \/ CheckOptions
    \/ BuildTopology
    \/ BuildMutationProbs
    \/ BuildLandscape
    \/ SeedNode
    \/ SeedDilute
    \/ CheckMixFrequency
    \/ CheckEnvChangeFrequency
    \/ OpenLogs

SpecConstruct == InitConstruct /\ [][NextConstruct]_vars

\* ---------------------------------------------------------------- queries

\* len(population): the live individuals of one population
PopLen(a) == Total(a)

\* Population.num_producers(): the live individuals with the social bit set
PopNumProducers(a, L) == SumOver(a, {g \in DOMAIN a : is_producer(g, L)})

\* Metapopulation.size()
size(f) == SumOver([n \in DOMAIN f |-> PopLen(f[n])], DOMAIN f)

\* Metapopulation.num_producers()
num_producers(f, L) ==
    SumOver([n \in DOMAIN f |-> PopNumProducers(f[n], L)], DOMAIN f)

\* what a call returns: the sentinel, a quotient, or a raised division fault
Returned(fn, kind, n, d) == [fn |-> fn, kind |-> kind, num |-> n, den |-> d]

\* the quotient taken without the guard on an empty metapopulation
prop_producers_unguarded(f, L) ==
    IF size(f) = 0
    THEN Returned("prop_producers", "ZeroDivisionError", 0, 0)
    ELSE Returned("prop_producers", "ratio", num_producers(f, L), size(f))

\* Metapopulation.prop_producers()
prop_producers(f, L) ==
    LET metapopsize == size(f)
    IN  IF metapopsize = 0
        THEN Returned("prop_producers", "NA", 0, 0)
        ELSE Returned("prop_producers", "ratio", num_producers(f, L), size(f))

\* a sink, or the driver between two cycles, asks for the proportion of
\* producers
PropProducersCall ==
    /\ pc \in {"idle", "log"}
    /\ probe' = prop_producers(abundances, config.genome_length)
    /\ UNCHANGED <<config, time, pc, node, slot, abundances, immigrants,
                   fitness_landscape, mutation_probs, environment_changed,
                   log_updates, history, pre_migrate, calls>>

\* configurations under which the queries are explored: 'single' mode on the
\* 'stress' seeding and 'neighbors' mode on the 'corners' seeding, each with an
\* environment change, then one with a mix
QueryConfigs ==
    {[BaseConfig EXCEPT !.size = sz, !.migration_dest = m[1],
                        !.initial_state = m[2], !.env_change_frequency = 1,
                        !.migration_p_far = RateOne, !.cycles = QueryCycles] :
        sz \in 1 .. 2,
        m \in {<<"single", "stress">>, <<"neighbors", "corners">>}}
    \cup {[BaseConfig EXCEPT !.size = 1, !.mix_frequency = 1,
                             !.migration_p_far = RateOne, !.cycles = QueryCycles]}

InitQuery == InitWith(QueryConfigs)

NextQuery ==
    \/ Next
    \/ PropProducersCall

SpecQuery == InitQuery /\ [][NextQuery]_vars

\* ------------------------------------------------------------- migration

HasEvent(e) == \E k \in 1 .. Len(history) : history[k] = e

Selected == \E k \in 1 .. Len(history) : history[k][1] = "select_migrants"

NoImmigrants ==
    \A n \in Nodes(config) : immigrants[n] = ZeroVector(config.genome_length)

\* the live abundance of genotype g summed over the nodes of f
LiveSum(f, g) == SumOver([n \in Nodes(config) |-> f[n][g]], Nodes(config))

\* between the start of migrate() and the start of census()
InMigration == pc = "migrating" \/ (pc = "census" /\ node = 0)

\* C1: every select_migrants call of one migrate() pass is evaluated against
\* the selecting node's abundance vector as it stood when migrate() began.
\* A step out of "migrating" that records a select_migrants call applies it
\* to abundances[node].
C1_SelectsFromPreMigrationState ==
    [][(pc = "migrating" /\ Len(history') > Len(history))
          => abundances[node] = pre_migrate[node]]_vars

\* C1, 'single' mode only: the one selection a node makes there does see
\* its pre-migration vector
C1_SingleModeSelectsFromPreMigrationState ==
    [][(pc = "migrating" /\ config.migration_dest = "single"
           /\ Len(history') > Len(history))
          => abundances[node] = pre_migrate[node]]_vars

\* C2: from the start of migrate() to the start of census() no node's live
\* abundance of any genotype exceeds its value at the start of migrate(),
\* so delivered immigrants are not yet part of any live vector.
C2_ImmigrantsInvisibleBeforeCensus ==
    InMigration =>
        \A n \in Nodes(config) : \A g \in Genotypes(config.genome_length) :
            abundances[n][g] <= pre_migrate[n][g]

\* migrate() has ended with immigrants pending at every node of the largest
\* topology, census() has not begun
C2_Witness ==
    /\ pc = "census" /\ node = 0
    /\ config.size = MaxSize
    /\ \A n \in Nodes(config) : Total(immigrants[n]) > 0

\* C3: when census() has finished, the live abundance of every genotype
\* summed over all nodes equals the sum at the start of migrate().
C3_MigrationConservesAbundance ==
    pc = "log" =>
        \A g \in Genotypes(config.genome_length) :
            LiveSum(abundances, g) = LiveSum(pre_migrate, g)

\* census() has finished after a pass that moved individuals between nodes
C3_Witness ==
    /\ pc = "log"
    /\ abundances # pre_migrate
    /\ config.size = MaxSize
    /\ config.migration_dest = "neighbors"
    /\ IsOne(config.migration_p_far)

\* C7: with a migration rate of exactly 0, migrate() selects no migrants and
\* leaves every live vector and every pending buffer as it found them.
C7_ZeroRateMigrateIsNoOp ==
    IsZero(config.migration_rate) =>
        /\ pc # "migrating"
        /\ ~Selected
        /\ InMigration => (abundances = pre_migrate /\ NoImmigrants)

\* migrate() has returned at once on a populated topology of several nodes
C7_Witness ==
    /\ IsZero(config.migration_rate)
    /\ pc = "census" /\ node = 0
    /\ config.size > 1
    /\ \A n \in Nodes(config) : Total(abundances[n]) > 0

\* ------------------------------------------------------------ scheduling

\* the place of a call in the order of cycle()
Rank(e) ==
    CASE e[1] = "grow" -> 1
      [] e[1] = "mutate" -> 2
      [] e[1] \in {"migrate", "select_migrants"} -> 3
      [] e[1] = "census" -> 4
      [] e[1] = "write_logfiles" -> 5
      [] e[1] = "mix" -> 6
      [] e[1] \in {"change_environment", "bottleneck", "reset_loci", "dilute"} -> 7
      [] e[1] = "tick" -> 8

\* the positions of history that hold event e
Positions(e) == {k \in 1 .. Len(history) : history[k] = e}

\* the phases that run once on every node
NodePhases == {"grow", "mutate", "census"}

\* the time the running (or last finished) cycle() read
CycleTime == IF pc = "idle" THEN time - 1 ELSE time

\* C4: the calls of a cycle() are made in the order grow, mutate, migrate,
\* census, log, mix, environment change or dilution, clock increment; a call
\* of a later phase is made only after every node has had each earlier
\* per-node phase exactly once, and a returned cycle() has run every phase.
C4_CycleOrder ==
    /\ \A i, j \in 1 .. Len(history) :
          i < j => Rank(history[i]) <= Rank(history[j])
    /\ \A j \in 1 .. Len(history) : \A p \in NodePhases :
          Rank(<<p>>) < Rank(history[j]) =>
             \A n \in Nodes(config) :
                /\ Cardinality(Positions(<<p, n>>)) = 1
                /\ \A k \in Positions(<<p, n>>) : k < j
    /\ \A j \in 1 .. Len(history) :
          Rank(history[j]) > 3 => Cardinality(Positions(<<"migrate">>)) = 1
    /\ \A j \in 1 .. Len(history) :
          Rank(history[j]) > 5 => Cardinality(Positions(<<"write_logfiles">>)) = 1
    /\ HasEvent(<<"tick">>) =>
          \A n \in Nodes(config) :
             \/ /\ Cardinality(Positions(<<"dilute", n>>)) = 1
                /\ ~HasEvent(<<"bottleneck", n>>)
             \/ /\ Cardinality(Positions(<<"bottleneck", n>>)) = 1
                /\ Cardinality(Positions(<<"reset_loci", n>>)) = 1
                /\ ~HasEvent(<<"dilute", n>>)
    /\ (pc = "idle" /\ calls > 0) => HasEvent(<<"tick">>)

\* a cycle() on two nodes has returned after mixing and then changing the
\* environment
C4_Witness ==
    /\ pc = "idle"
    /\ config.size = 2
    /\ HasEvent(<<"mix">>)
    /\ HasEvent(<<"change_environment">>)
    /\ HasEvent(<<"select_migrants", 1>>)

\* C5: the clock starts at 0 and equals the number of cycle() calls that
\* have returned; inside a cycle() it still holds the value the call found,
\* so only the increment that ends cycle() changes it.
C5_ClockCountsCycles ==
    /\ time = IF pc = "idle" THEN calls ELSE calls - 1
    /\ time >= 0

\* cycles with mixing and an environment change have returned
C5_Witness ==
    /\ pc = "idle"
    /\ time = MaxCycles
    /\ environment_changed
    /\ config.mix_frequency > 0

\* C6: a returned cycle() has performed exactly one of environment change
\* and dilution; it changed the environment iff env_change_frequency > 0 and
\* the time it read was positive and a multiple of env_change_frequency;
\* environment_changed tells which; the first cycle diluted.  No cycle()
\* ever starts both.
C6_EnvironmentChangeXorDilution ==
    /\ ~(HasEvent(<<"change_environment">>) /\ HasEvent(<<"dilute">>))
    /\ (pc = "idle" /\ calls > 0) =>
          /\ HasEvent(<<"change_environment">>) # HasEvent(<<"dilute">>)
          /\ HasEvent(<<"change_environment">>) <=>
                (/\ config.env_change_frequency > 0
                 /\ CycleTime > 0
                 /\ CycleTime % config.env_change_frequency = 0)
          /\ environment_changed <=> HasEvent(<<"change_environment">>)
          /\ CycleTime = 0 => HasEvent(<<"dilute">>)

\* a cycle() that changed the environment has returned, after an earlier
\* cycle that diluted
C6_Witness ==
    /\ pc = "idle"
    /\ time > 1
    /\ environment_changed
    /\ HasEvent(<<"change_environment">>)

\* C8: once the mix step of a cycle() is passed, mix() has been called iff
\* mix_frequency > 0 and the time the cycle read was positive and a multiple
\* of mix_frequency; before the step it has not been called.
C8_MixCadence ==
    IF pc \in {"env", "bottleneck", "dilute", "tick"} \/ (pc = "idle" /\ calls > 0)
    THEN HasEvent(<<"mix">>) <=>
            (/\ config.mix_frequency > 0
             /\ CycleTime > 0
             /\ CycleTime % config.mix_frequency = 0)
    ELSE ~HasEvent(<<"mix">>)

\* a cycle() that mixed has returned, and the cadence skips some cycles
C8_Witness ==
    /\ pc = "idle"
    /\ HasEvent(<<"mix">>)
    /\ config.mix_frequency = 2

\* the times whose write_logfiles() call has been made
LoggedTimes ==
    {t \in 0 .. time :
        t < time \/ (pc # "idle" /\ HasEvent(<<"write_logfiles">>))}

\* the multiples of log_frequency among the times in S, ascending
RECURSIVE DueTimes(_)
DueTimes(S) ==
    IF S = {} THEN <<>>
    ELSE LET m == CHOOSE x \in S : \A y \in S : y <= x
         IN  IF m % config.log_frequency = 0
             THEN Append(DueTimes(S \ {m}), m)
             ELSE DueTimes(S \ {m})

\* C9: every attached sink has been notified exactly once, with the time the
\* cycle read, for each cycle whose log step has run at a time that is a
\* multiple of log_frequency, and for no other; sinks not attached are never
\* notified; the log step follows every census and precedes mix, environment
\* change and dilution.
C9_LogCadence ==
    /\ \A s \in AllSinks :
          log_updates[s] = IF s \in config.sinks THEN DueTimes(LoggedTimes) ELSE <<>>
    /\ \A k \in Positions(<<"write_logfiles">>) :
          /\ \A n \in Nodes(config) : \E c \in Positions(<<"census", n>>) : c < k
          /\ \A j \in 1 .. Len(history) : Rank(history[j]) > 5 => k < j

\* the log step of the third cycle has just run; the cadence skipped the
\* second cycle
C9_Witness ==
    /\ pc = "mix"
    /\ config.log_frequency = 2
    /\ log_updates["demographics"] = <<0, 2>>
    /\ log_updates["fitness"] = <<0, 2>>
    /\ log_updates["genotypes"] = <<>>

\* C10: mutation_probs is, entry for entry, the matrix built at construction.
C10_MutationMatrixFixed ==
    mutation_probs = get_mutation_probabilities(config.genome_length,
                         config.mutation_rate_social,
                         config.mutation_rate_adaptation)

\* the third cycle() has returned after an environment change that rebuilt
\* the landscape of a genome with one adaptation locus
C10_Witness ==
    /\ pc = "idle"
    /\ environment_changed
    /\ config.genome_length = 1
    /\ fitness_landscape[1] = 4
    /\ time > 2

\* ---------------------------------------------------------- construction claims

\* bit k of x
Bit(x, k) == (x \div Pow(2, k)) % 2

\* 1 iff i and j differ at the social bit, else 0
SocialBitDiffers(L, i, j) == IF Bit(i, L) # Bit(j, L) THEN 1 ELSE 0

\* the number of adaptation loci at which i and j differ
AdaptationDistance(L, i, j) ==
    Cardinality({k \in 0 .. (L - 1) : Bit(i, k) # Bit(j, k)})

\* (1-m_a)^(L-Ha) * m_a^Ha * (1-m_s)^(1-S) * m_s^S, scaled by ma.den^L * ms.den
ClosedFormEntry(L, ms, ma, i, j) ==
    LET S  == SocialBitDiffers(L, i, j)
        Ha == AdaptationDistance(L, i, j)
    IN  Pow(ma.den - ma.num, L - Ha) * Pow(ma.num, Ha)
        * Pow(ms.den - ms.num, 1 - S) * Pow(ms.num, S)

\* the matrix has been built by __init__
MatrixBuilt == mutation_probs # <<>>

\* C11: the matrix of get_mutation_probabilities has 2^(L+1) rows and
\* columns, its entry [i][j] is (1-m_a)^(L-Ha) * m_a^Ha * (1-m_s)^(1-S) * m_s^S
\* with S the difference at the social bit and Ha the Hamming distance over
\* the L adaptation bits, and every row sums to 1 (here: to the common
\* denominator ma.den^L * ms.den of the scaled entries).
C11_MutationMatrixIsStochastic ==
    MatrixBuilt =>
        LET L  == config.genome_length
            ms == config.mutation_rate_social
            ma == config.mutation_rate_adaptation
            G  == 0 .. (Pow(2, L + 1) - 1)
        IN  /\ DOMAIN mutation_probs = G
            /\ Cardinality(DOMAIN mutation_probs) = Pow(2, L + 1)
            /\ \A i \in G :
                  /\ DOMAIN mutation_probs[i] = G
                  /\ \A j \in G :
                        mutation_probs[i][j] = ClosedFormEntry(L, ms, ma, i, j)
                  /\ Total(mutation_probs[i]) = Pow(ma.den, L) * ms.den

\* the largest explored matrix, built from two different rates, with a
\* positive chance of mutating every locus at once
C11_Witness ==
    /\ pc = "idle"
    /\ config.genome_length = MaxGenomeLength
    /\ config.mutation_rate_social = Rate(1, 3)
    /\ config.mutation_rate_adaptation = RateHalf
    /\ MatrixBuilt
    /\ mutation_probs[0][Pow(2, MaxGenomeLength + 1) - 1] > 0

\* the landscape has been built by __init__
LandscapeBuilt == fitness_landscape # <<>>

\* C12: the landscape of build_fitness_landscape has exactly 2^(L+1)
\* entries, and for every two genotypes that differ only in the social bit
\* the non-producer's entry exceeds the producer's by production_cost, the
\* producer being the one with the social bit set.
C12_LandscapeCostOfProduction ==
    LandscapeBuilt =>
        LET L == config.genome_length
            G == 0 .. (Pow(2, L + 1) - 1)
        IN  /\ DOMAIN fitness_landscape = G
            /\ Cardinality(DOMAIN fitness_landscape) = Pow(2, L + 1)
            /\ \A np \in G : \A p \in G :
                  (Xor(np, p) = Pow(2, L) /\ is_producer(p, L)
                      /\ ~is_producer(np, L))
                    => fitness_landscape[np] - fitness_landscape[p]
                          = config.production_cost

\* the largest explored landscape, with a positive cost and adaptation
\* effects that tell its genotypes apart
C12_Witness ==
    /\ pc = "idle"
    /\ config.genome_length = MaxGenomeLength
    /\ config.production_cost > 0
    /\ LandscapeBuilt
    /\ fitness_landscape[1] # fitness_landscape[2]
    /\ fitness_landscape[0] - fitness_landscape[Pow(2, MaxGenomeLength)]
          = config.production_cost

\* the individuals of a that are producers, and those that are not
ProducersIn(a, L) == SumOver(a, {g \in DOMAIN a : is_producer(g, L)})
NonProducersIn(a, L) == SumOver(a, {g \in DOMAIN a : ~is_producer(g, L)})

\* the seeding loop of __init__ has ended and __init__ has not yet returned
SeedingDone == pc \in {"init_mix", "init_env", "init_logs"}

\* the node has been seeded and its first dilution is about to run
BeforeFirstDilution == pc = "init_dilute"

\* C13, as stated: under 'corners', before the initial dilution node 0
\* holds capacity_max individuals that are all non-producers and the last
\* node holds capacity_min individuals that are all producers.
C13_CornersAsStated ==
    (config.initial_state = "corners" /\ BeforeFirstDilution) =>
        LET L == config.genome_length
        IN  /\ node = 0 =>
                  /\ Total(abundances[node]) = config.capacity_max
                  /\ ProducersIn(abundances[node], L) = 0
            /\ node = LastNode =>
                  /\ Total(abundances[node]) = config.capacity_min
                  /\ NonProducersIn(abundances[node], L) = 0

\* C13, amended: under 'corners', before the initial dilution node 0 holds
\* capacity_max individuals that are all producers (genotype 2^L, social
\* bit set) and, when the topology has more than one node, its last node
\* holds capacity_min individuals that are all non-producers (genotype 0,
\* social bit clear); each seeded node is then diluted, node 0 first, and
\* every other node starts with all abundances zero.
C13_CornersSeeding ==
    config.initial_state = "corners" =>
        LET L    == config.genome_length
            last == config.size - 1
        IN  /\ (BeforeFirstDilution /\ node = 0) =>
                  /\ Total(abundances[node]) = config.capacity_max
                  /\ NonProducersIn(abundances[node], L) = 0
                  /\ abundances[node][Pow(2, L)] = config.capacity_max
            /\ (BeforeFirstDilution /\ node # 0) =>
                  /\ node = last
                  /\ Total(abundances[node]) = config.capacity_min
                  /\ ProducersIn(abundances[node], L) = 0
                  /\ abundances[node][0] = config.capacity_min
            /\ SeedingDone =>
                  /\ history = IF last = 0 THEN << <<"dilute", 0>> >>
                               ELSE << <<"dilute", 0>>, <<"dilute", last>> >>
                  /\ \A n \in Nodes(config) :
                        (n # 0 /\ n # last) => abundances[n] = ZeroVector(L)
                  /\ ProducersIn(abundances[0], L) = Total(abundances[0])
                  /\ last # 0 => ProducersIn(abundances[last], L) = 0

\* the last of MaxSize nodes has just been seeded with a non-producer, and
\* node 0 still holds a producer after its dilution
C13_Witness ==
    /\ config.initial_state = "corners"
    /\ config.size = MaxSize
    /\ config.capacity_min = 1
    /\ BeforeFirstDilution
    /\ node = LastNode
    /\ abundances[node][0] = 1
    /\ abundances[0][Pow(2, config.genome_length)] > 0

\* cap = floor(capacity_min + (capacity_max - capacity_min) * p)
StressCap(c) ==
    LET p == c.initial_producer_proportion
    IN  (c.capacity_min * p.den + (c.capacity_max - c.capacity_min) * p.num)
            \div p.den

\* floor(cap * p)
StressProducers(c) ==
    (StressCap(c) * c.initial_producer_proportion.num)
        \div c.initial_producer_proportion.den

\* C14: under 'stress' every node is seeded with cap individuals of which
\* floor(cap * p) are producers (social bit set) and the remaining
\* cap - floor(cap * p) are non-producers; each node then goes through
\* bottleneck and through no plain dilution.
C14_StressSeeding ==
    config.initial_state = "stress" =>
        LET L == config.genome_length
        IN  /\ BeforeFirstDilution =>
                  /\ Total(abundances[node]) = StressCap(config)
                  /\ ProducersIn(abundances[node], L) = StressProducers(config)
                  /\ NonProducersIn(abundances[node], L)
                        = StressCap(config) - StressProducers(config)
            /\ SeedingDone =>
                  history = [n \in 1 .. config.size |-> <<"bottleneck", n - 1>>]

\* C14, what does hold: every node is seeded with cap individuals, then
\* goes through bottleneck and through no plain dilution; floor(cap * p) of
\* them have genotype 0 and the rest genotype 2^L
C14_StressSeedSizeAndBottleneck ==
    config.initial_state = "stress" =>
        LET L == config.genome_length
        IN  /\ BeforeFirstDilution =>
                  /\ Total(abundances[node]) = StressCap(config)
                  /\ abundances[node][0] = StressProducers(config)
                  /\ abundances[node][Pow(2, L)]
                        = StressCap(config) - StressProducers(config)
            /\ SeedingDone =>
                  history = [n \in 1 .. config.size |-> <<"bottleneck", n - 1>>]

\* one of the violations the claim lists
ListedViolation(c) ==
    \/ ~RateInUnit(c.migration_rate)
    \/ c.migration_dest \notin {"single", "neighbors"}
    \/ ~RateInUnit(c.migration_p_far)
    \/ c.topology \notin TopologyTypes
    \/ c.log_frequency <= 0
    \/ c.mix_frequency < 0
    \/ c.env_change_frequency < 0

\* the parameters of the (complete) topology are valid
TopologyParametersValid(c) == c.size > 0

\* __init__ has returned: cycle() can be called
Constructed == pc = "idle"

\* __init__ has raised
ConstructionFailed == pc = "failed"

GenomeCall(fn, a, b, bits, flag, count) ==
    [fn |-> fn, a |-> a, b |-> b, bits |-> bits, flag |-> flag, count |-> count]

\* the arguments are drawn: genotypes of up to MaxGenomeLength + 1 bits and
\* a social-bit position; no engine is involved
InitGenome ==
    /\ config = BaseConfig
    /\ time = 0
    /\ pc = "genome"
    /\ node = 0
    /\ slot = 1
    /\ abundances = <<>>
    /\ immigrants = <<>>
    /\ mutation_probs = <<>>
    /\ fitness_landscape = <<>>
    /\ environment_changed = FALSE
    /\ log_updates = [s \in AllSinks |-> <<>>]
    /\ history = <<>>
    /\ pre_migrate = <<>>
    /\ calls = 0
    /\ \E a \in Genotypes(MaxGenomeLength) : \E b \in Genotypes(MaxGenomeLength) :
          \E bits \in 0 .. MaxGenomeLength :
             probe = GenomeCall("args", a, b, bits, FALSE, 0)

\* genome.is_producer(probe.a, probe.bits) is called
CallIsProducer ==
    /\ pc = "genome"
    /\ probe.fn = "args"
    /\ probe' = [probe EXCEPT !.fn = "is_producer",
                              !.flag = is_producer(probe.a, probe.bits)]
    /\ UNCHANGED <<config, time, pc, node, slot, abundances, immigrants,
                   fitness_landscape, mutation_probs, environment_changed,
                   log_updates, history, pre_migrate, calls>>

\* genome.hamming_distance(probe.a, probe.b) is called
CallHammingDistance ==
    /\ pc = "genome"
    /\ probe.fn = "args"
    /\ probe' = [probe EXCEPT !.fn = "hamming_distance",
                              !.count = hamming_distance(probe.a, probe.b)]
    /\ UNCHANGED <<config, time, pc, node, slot, abundances, immigrants,
                   fitness_landscape, mutation_probs, environment_changed,
                   log_updates, history, pre_migrate, calls>>

NextGenome ==
    \/ CallIsProducer
    \/ CallHammingDistance

SpecGenome == InitGenome /\ [][NextGenome]_vars

\* ------------------------------------------------------------ query claims

\* the live individuals of the metapopulation, counted genotype by genotype
LiveTotal ==
    SumOver([g \in Genotypes(config.genome_length) |-> LiveSum(abundances, g)],
            Genotypes(config.genome_length))

\* the live individuals whose genotype is at least 2^L
LiveProducers ==
    LET P == {g \in Genotypes(config.genome_length) :
                 g >= Pow(2, config.genome_length)}
    IN  SumOver([g \in P |-> LiveSum(abundances, g)], P)

\* C16: prop_producers() returns the sentinel 'NA' exactly when the
\* metapopulation's size is 0 and otherwise the quotient
\* num_producers()/size(), which lies in [0, 1]; it never divides by zero
\* and it leaves all state unchanged.
C16_PropProducersSentinel ==
    [][(probe' # probe /\ probe'.fn = "prop_producers") =>
          /\ (probe'.kind = "NA") <=> (LiveTotal = 0)
          /\ probe'.kind # "ZeroDivisionError"
          /\ LiveTotal > 0 =>
                /\ probe'.kind = "ratio"
                /\ probe'.num = LiveProducers /\ probe'.den = LiveTotal
                /\ 0 <= probe'.num /\ probe'.num <= probe'.den
          /\ UNCHANGED <<config, time, pc, node, slot, abundances, immigrants,
                         fitness_landscape, mutation_probs, environment_changed,
                         log_updates, history, pre_migrate, calls>>]_vars

\* a sink asked during a later cycle's write_logfiles, when every population
\* had died out, and was answered with the sentinel
C16_Witness ==
    /\ probe # <<>>
    /\ probe.fn = "prop_producers"
    /\ probe.kind = "NA"
    /\ pc = "log"
    /\ time > 0
    /\ size(abundances) = 0

\* ----------------------------------------------------------- genome claims

\* a call of fn has returned
GenomeReturned(fn) == pc = "genome" /\ probe.fn = fn

\* the bit positions at which a and b differ
DifferingBits(a, b) == {k \in 0 .. MaxGenomeLength : Bit(a, k) # Bit(b, k)}

\* C17: is_producer(g, L) depends only on the social bit: for g in
\* [0, 2^(L+1)) flipping any adaptation bit k < L leaves the result as it is,
\* and the result is true iff g >= 2^L.
C17_IsProducerReadsSocialBitOnly ==
    (GenomeReturned("is_producer") /\ probe.a < Pow(2, probe.bits + 1)) =>
        /\ probe.flag <=> (probe.a >= Pow(2, probe.bits))
        /\ \A k \in 0 .. (probe.bits - 1) :
              is_producer(Xor(probe.a, Pow(2, k)), probe.bits) = probe.flag

\* a producer of the longest genome with an adaptation bit set
C17_Witness ==
    /\ GenomeReturned("is_producer")
    /\ probe.bits = MaxGenomeLength
    /\ probe.a = Pow(2, MaxGenomeLength) + 1
    /\ probe.flag

\* C18: hamming_distance(a, a) = 0, hamming_distance(a, b) =
\* hamming_distance(b, a), and hamming_distance(a, b) is the number of bit
\* positions at which a and b differ.
C18_HammingDistanceCountsDifferingBits ==
    GenomeReturned("hamming_distance") =>
        /\ probe.count = Cardinality(DifferingBits(probe.a, probe.b))
        /\ probe.count = hamming_distance(probe.b, probe.a)
        /\ probe.a = probe.b => probe.count = 0
        /\ hamming_distance(probe.a, probe.a) = 0

\* two genotypes that differ at every position
C18_Witness ==
    /\ GenomeReturned("hamming_distance")
    /\ probe.a = Pow(2, MaxGenomeLength + 1) - 1
    /\ probe.b = 0
    /\ probe.count = MaxGenomeLength + 1

\* ------------------------------------------------------ environment change

\* the position of the change_environment() call in the current cycle
EnvIndex == CHOOSE k \in 1 .. Len(history) : history[k] = <<"change_environment">>

\* the calls change_environment() makes on n nodes: bottleneck then
\* reset_loci, node by node
ExpectedEnvCalls(n) ==
    [k \in 1 .. 2 * n |->
        IF k % 2 = 1 THEN <<"bottleneck", (k - 1) \div 2>>
        ELSE <<"reset_loci", (k - 2) \div 2>>]

\* the calls of the current cycle after change_environment() was entered,
\* the closing tick left out
EnvCalls ==
    LET NotTick(e) == e # <<"tick">>
    IN  SelectSeq(SubSeq(history, EnvIndex + 1, Len(history)), NotTick)

\* the calls on the populations are those of change_environment(), in order
EnvCallsInOrder ==
    IF HasEvent(<<"change_environment">>)
    THEN /\ Len(EnvCalls) <= 2 * config.size
         /\ EnvCalls = SubSeq(ExpectedEnvCalls(config.size), 1, Len(EnvCalls))
         /\ (pc \in {"tick", "idle"}) => Len(EnvCalls) = 2 * config.size
         /\ \A k \in 1 .. Len(history) : history[k][1] # "dilute"
    ELSE \A k \in 1 .. Len(history) :
            history[k][1] \notin {"bottleneck", "reset_loci"}

\* the genotypes reset_loci leaves individuals on
ResetGenotypes == {0, Pow(2, config.genome_length)}

\* C19: an environment change rebuilds the fitness landscape and then, node
\* by node, applies bottleneck followed by reset_loci; a cycle with an
\* environment change dilutes no population; and the landscape is replaced
\* by no step other than the entry of change_environment().
C19_EnvironmentChangeSteps ==
    /\ [](pc # "error" => EnvCallsInOrder)
    /\ [][/\ fitness_landscape' # fitness_landscape =>
                /\ pc = "env" /\ EnvChangeDue
                /\ history' = Append(history, <<"change_environment">>)
          /\ (pc = "env" /\ EnvChangeDue) =>
                /\ fitness_landscape' \in
                      {build_fitness_landscape(config.genome_length,
                                               config.base_fitness,
                                               config.production_cost, e) :
                          e \in EffectDraws(config.genome_length)}
                /\ abundances' = abundances
          /\ pc = "bottleneck" =>
                /\ \A g \in Genotypes(config.genome_length) \ ResetGenotypes :
                      abundances'[node][g] = 0
                /\ Total(abundances'[node]) <= Total(abundances[node])
                /\ ProducersIn(abundances'[node], config.genome_length)
                      <= ProducersIn(abundances[node], config.genome_length)
                /\ \A n \in Nodes(config) \ {node} :
                      abundances'[n] = abundances[n]]_vars

\* a cycle with an environment change has returned on two nodes, the second
\* node's bottleneck and reset_loci being its last calls before the tick
C19_Witness ==
    /\ pc = "idle"
    /\ config.size = 2
    /\ HasEvent(<<"change_environment">>)
    /\ history[Len(history) - 1] = <<"reset_loci", 1>>
    /\ history[Len(history) - 2] = <<"bottleneck", 1>>

\* --------------------------------------------------- single destination

\* the migrants that left the current node in this step
Emigrated == VecSub(abundances[node], abundances'[node])

\* the nodes whose pending buffer grew by exactly the emigrants of this step
\* while every other buffer stayed as it was
DestinationsOfStep ==
    {d \in Nodes(config) :
        immigrants' = [immigrants EXCEPT ![d] = VecAdd(immigrants[d], Emigrated)]}

\* the select_migrants calls node n has made in the current pass
SelectionsOf(n) ==
    Cardinality({k \in 1 .. Len(history) : history[k] = <<"select_migrants", n>>})

\* C20: in 'single' mode each node delivers all the migrants it selected in
\* a pass to exactly one destination, a node with index in [0, N-1]; when the
\* far redirect cannot be taken (migration_p_far = 0) the destination is a
\* graph neighbour of the source, and when it is always taken
\* (migration_p_far = 1) it may be any node, the source included.
C20_SingleModeOneDestination ==
    /\ []((config.migration_dest = "single" /\ pc # "error") =>
            \A n \in Nodes(config) : SelectionsOf(n) <= 1)
    /\ [][(pc = "migrating" /\ config.migration_dest = "single"
             /\ pc' # "error") =>
            /\ history' = Append(history, <<"select_migrants", node>>)
            /\ DestinationsOfStep # {}
            /\ Emigrated # ZeroVector(config.genome_length)
                  => Cardinality(DestinationsOfStep) = 1
            /\ IsZero(config.migration_p_far)
                  => DestinationsOfStep \cap SeqRange(Neighbors(config, node)) # {}
            /\ \A n \in Nodes(config) \ {node} : abundances'[n] = abundances[n]
            /\ \A g \in Genotypes(config.genome_length) :
                  0 <= Emigrated[g] /\ Emigrated[g] <= abundances[node][g]]_vars

\* the far redirect, always taken, has sent the migrants of the last of
\* MaxSize nodes back to that node itself
C20_Witness ==
    /\ config.migration_dest = "single"
    /\ IsOne(config.migration_p_far)
    /\ config.size = MaxSize
    /\ pc = "census" /\ node = 0
    /\ immigrants[LastNode] = VecSub(pre_migrate[LastNode], abundances[LastNode])
    /\ immigrants[LastNode] # ZeroVector(config.genome_length)
    /\ \A n \in Nodes(config) \ {LastNode} : immigrants[n] = ZeroVector(config.genome_length)
    /\ \A n \in Nodes(config) \ {LastNode} : abundances[n] = pre_migrate[n]

\* ---------------------------------------------------------------- mixing

\* C21: after mix() every node's abundance of every genotype lies between 0
\* and the metapopulation-wide sum of that genotype before the mix, so a
\* genotype absent everywhere stays absent; a single-node topology keeps its
\* vector; and mix() touches nothing but the abundances. (That the nodes draw
\* independently shows in the reachable states: see the witness.)
C21_MixWithinPreMixSums ==
    [][(pc = "mix" /\ MixDue) =>
          /\ \A n \in Nodes(config) : \A g \in Genotypes(config.genome_length) :
                /\ 0 <= abundances'[n][g]
                /\ abundances'[n][g] <= LiveSum(abundances, g)
          /\ \A g \in Genotypes(config.genome_length) :
                LiveSum(abundances, g) = 0 => LiveSum(abundances', g) = 0
          /\ config.size = 1 => abundances' = abundances
          /\ DOMAIN abundances' = Nodes(config)
          /\ immigrants' = immigrants]_vars

\* mix() has run on two nodes and left more individuals than two nodes at
\* capacity hold, which only draws made independently per node can do
C21_Witness ==
    /\ pc = "env"
    /\ HasEvent(<<"mix">>)
    /\ config.size = 2
    /\ size(abundances) > 2 * config.capacity_max
    /\ abundances[0] = abundances[1]

\* ------------------------------------------------------- immigrant buffers

\* census() has completed and the next migrate() has not begun: the rest of
\* this cycle, the pause between cycles, and the next cycle's grow and mutate
\* (before the first cycle no migrate() has run either)
OutsideMigration ==
    pc \in {"log", "mix", "env", "bottleneck", "dilute", "tick", "idle",
            "grow", "mutate", "migrate"}

\* C22: every node's pending-immigrant buffer is empty from the end of
\* census() until the next migrate() begins, so mix(), dilution, environment
\* change and the next cycle's grow and mutate act on states in which every
\* individual is in a live abundance vector.
C22_BuffersEmptyOutsideMigration ==
    OutsideMigration =>
        /\ DOMAIN immigrants = Nodes(config)
        /\ \A n \in Nodes(config) :
              \A g \in Genotypes(config.genome_length) : immigrants[n][g] = 0

\* census() has just completed on two nodes and merged an immigrant into the
\* second node's live vector
C22_Witness ==
    /\ pc = "log"
    /\ config.size = 2
    /\ \E g \in Genotypes(config.genome_length) :
          abundances[1][g] > pre_migrate[1][g]
    /\ NoImmigrants

\* ------------------------------------------------- nodes without neighbours

\* migrate() has raised and the cycle was abandoned
MigrateRaised == pc = "error"

\* the nodes that have no graph neighbour
IsolatedNodes == {n \in Nodes(config) : Degree(config, n) = 0}

\* C23: with migration_rate > 0, migrate() completes for every node, nodes
\* without neighbours included: in 'single' mode such a node resolves a
\* destination or keeps its individuals, and in 'neighbors' mode it selects
\* and sends no migrants.
C23_MigrateCompletesWithoutNeighbours ==
    ~IsZero(config.migration_rate) =>
        /\ ~MigrateRaised
        /\ config.migration_dest = "neighbors" =>
              \A n \in IsolatedNodes : ~HasEvent(<<"select_migrants", n>>)

\* C23, what does hold: migrate() raises only in 'single' mode, at a node
\* without neighbours, when the far redirect can be left untaken; the node's
\* individuals are all still in place then; and in 'neighbors' mode a node
\* without neighbours selects and sends nothing and migrate() completes.
C23_RaisesOnlyInSingleModeWithoutNeighbours ==
    /\ MigrateRaised =>
          /\ config.migration_dest = "single"
          /\ ~IsZero(config.migration_rate)
          /\ ~IsOne(config.migration_p_far)
          /\ node \in IsolatedNodes
          /\ abundances[node] = pre_migrate[node]
          /\ ~HasEvent(<<"census", node>>)
    /\ config.migration_dest = "neighbors" =>
          \A n \in IsolatedNodes :
              /\ ~HasEvent(<<"select_migrants", n>>)
              /\ InMigration => abundances[n] = pre_migrate[n]

====
